---- MODULE Spec2Model ----
(***************************************************************************)
(* ZMODDAC1411 (src/ZmodDAC1411/zmoddac1411.cpp): the DAC channel          *)
(* controller built on the ZMOD base class.                                *)
(*                                                                         *)
(* Three specifications share the variables:                               *)
(*   SpecData  - setData, step by step, against a DMA engine               *)
(*   SpecCalib - readUserCalib and setCalibValues on the calibration       *)
(*               record and the coefficient register fields                *)
(*   SpecPure  - the pure packing and conversion functions                 *)
(*                                                                         *)
(* A float is modelled as an exact rational <<numerator, denominator>>;     *)
(* the inputs are multiples of 1/CalScale and 1/VoltScale.  A 32-bit word  *)
(* is modelled as its bits, a function 0..31 -> {0, 1}.  size_t products   *)
(* are those of buffers that exist, so they do not wrap.                   *)
(***************************************************************************)
EXTENDS Integers, Sequences, FiniteSets, TLC

VARIABLES
    \* setData and the DMA members of the ZMOD base
    pc,            \* position inside setData
    length,        \* the length argument of the running call
    transferSize,  \* ZMOD::transferSize, programmed by setTransferSize
    Status,        \* the local uint8_t Status
    ret,           \* the value the last finished call returned
    sizeAtStart,   \* history: transferSize when startDMATransfer was called
    polls,         \* history: isDMATransferComplete calls of this call (saturating)
    lastPoll,      \* history: what the last isDMATransferComplete reported
    \* calibration
    calib,         \* TRUE when the base member calib points to a record
    cal,           \* the CALIBECLYPSEDAC record: cal[channel][gain][kind]
    regs,          \* the eight coefficient register fields
    wlog,          \* register fields written by the last operation, in order
    lastOp,        \* the last calibration operation
    calRet,        \* what the last readUserCalib returned
    baseStatus,    \* what ZMOD::readUserCalib returned to the last readUserCalib
    lastStored,    \* history: per [channel][gain][kind], the value stored last,
                   \* by a load or by setCalibValues
    \* pure functions
    fn,            \* the function applied last
    args,          \* its arguments
    result         \* its result

dataVars == <<pc, length, transferSize, Status, ret, sizeAtStart, polls, lastPoll>>
calibVars == <<calib, cal, regs, wlog, lastOp, calRet, baseStatus, lastStored>>
pureVars == <<fn, args, result>>
vars == <<dataVars, calibVars, pureVars>>

(***************************************************************************)
(* Bounds of the model                                                     *)
(***************************************************************************)
MaxLen == 3        \* buffer lengths 0..MaxLen
MaxPolls == 3      \* the poll counter saturates here
MaxCal == 1        \* setCalibValues arguments, in 1/CalScale
MaxSeed == 1       \* flash contents 0..MaxSeed
CalScale == 64     \* calibration floats are multiples of 1/CalScale
MaxData == 4       \* sample values around 0
MaxVolt == 10      \* voltages in -MaxVolt..MaxVolt volts
VoltScale == 16    \* voltages are multiples of 1/VoltScale volts
MaxCoef == 6       \* computeCoef* arguments, in 1/CalScale

(***************************************************************************)
(* Status codes.  zmod.h declares them; the source only uses them.         *)
(***************************************************************************)
ERR_SUCCESS == 0
ERR_FAIL == 1
ERR_CALIB_CRC == 2
ERR_CALIB_ID == 3

(***************************************************************************)
(* Exact rationals <<n, d>>, d > 0, in lowest terms                        *)
(***************************************************************************)
Abs(x) == IF x < 0 THEN -x ELSE x

RECURSIVE GCD(_, _)
GCD(a, b) == IF b = 0 THEN a ELSE GCD(b, a % b)

Rat(n, d) ==
    LET s == IF d < 0 THEN -1 ELSE 1
        g == GCD(Abs(n), Abs(d))
    IN  <<(s * n) \div g, (s * d) \div g>>

RatNeg(a) == <<-a[1], a[2]>>
RatAdd(a, b) == Rat(a[1] * b[2] + b[1] * a[2], a[2] * b[2])
RatMul(a, b) ==
    LET g1 == GCD(Abs(a[1]), b[2])
        g2 == GCD(Abs(b[1]), a[2])
    IN  Rat((a[1] \div g1) * (b[1] \div g2), (a[2] \div g2) * (b[2] \div g1))
RatDiv(a, b) == RatMul(a, Rat(b[2], b[1]))
RatGE(a, b) == a[1] * b[2] >= b[1] * a[2]
RatLT(a, b) == a[1] * b[2] < b[1] * a[2]

\* (int32_t) of a floating value: the fraction is discarded, toward zero
ToInt32(a) == IF a[1] >= 0 THEN a[1] \div a[2] ELSE -((-a[1]) \div a[2])

(***************************************************************************)
(* Bits                                                                    *)
(***************************************************************************)
Bit(x, i) == (x \div (2 ^ i)) % 2

\* the bits of a uint16_t value, widened to 32 bits
Word16(x) == [i \in 0..31 |-> IF i < 16 THEN Bit(x, i) ELSE 0]
WordAnd(a, b) == [i \in 0..31 |-> a[i] * b[i]]
WordShl(a, k) == [i \in 0..31 |-> IF i >= k THEN a[i - k] ELSE 0]
ZeroWord == [i \in 0..31 |-> 0]

(***************************************************************************)
(* setData                                                                 *)
(***************************************************************************)
Lengths == 0..MaxLen
\* what the DMA engine may answer to startDMATransfer, as a uint8_t
StartStatuses == {0, 1, 2, 255}

\* sizeof(uint32_t)
SizeofU32 == 4

\* a caller enters setData(buffer, length)
setData_call ==
    /\ pc \in {"idle", "returned"}
    /\ \E len \in Lengths : length' = len
    /\ pc' = "setTransferSize"
    /\ polls' = 0
    /\ lastPoll' = FALSE
    /\ UNCHANGED <<transferSize, Status, ret, sizeAtStart>>

\* setTransferSize(length * sizeof(uint32_t))
setData_setTransferSize_off ==
    /\ pc = "setTransferSize"
    /\ transferSize' = length
    /\ pc' = "startDMATransfer"
    /\ UNCHANGED <<length, Status, ret, sizeAtStart, polls, lastPoll>>

setData_setTransferSize ==
    /\ pc = "setTransferSize"
    /\ transferSize' = length * SizeofU32
    /\ pc' = "startDMATransfer"
    /\ UNCHANGED <<length, Status, ret, sizeAtStart, polls, lastPoll>>

\* Status = startDMATransfer(buffer)
setData_startDMATransfer ==
    /\ pc = "startDMATransfer"
    /\ \E s \in StartStatuses : Status' = s
    /\ sizeAtStart' = transferSize
    /\ pc' = "checkStatus"
    /\ UNCHANGED <<length, transferSize, ret, polls, lastPoll>>

\* if (Status) return ERR_FAIL;
setData_checkStatus_nocheck ==
    /\ pc = "checkStatus"
    /\ pc' = "wait"
    /\ UNCHANGED <<length, transferSize, Status, ret, sizeAtStart, polls, lastPoll>>

setData_checkStatus ==
    /\ pc = "checkStatus"
    /\ IF Status # 0
         THEN /\ ret' = ERR_FAIL
              /\ pc' = "returned"
         ELSE /\ pc' = "wait"
              /\ UNCHANGED ret
    /\ UNCHANGED <<length, transferSize, Status, sizeAtStart, polls, lastPoll>>

\* while(!isDMATransferComplete()) {}  return Status;
setData_poll ==
    /\ pc = "wait"
    /\ \E complete \in BOOLEAN :
         /\ lastPoll' = complete
         /\ polls' = IF polls < MaxPolls THEN polls + 1 ELSE polls
         /\ IF complete
              THEN /\ ret' = Status
                   /\ pc' = "returned"
              ELSE /\ pc' = "wait"
                   /\ UNCHANGED ret
    /\ UNCHANGED <<length, transferSize, Status, sizeAtStart>>

(***************************************************************************)
(* The calibration coefficients                                            *)
(***************************************************************************)
IDEAL_RANGE_DAC_HIGH == Rat(50, 10)
IDEAL_RANGE_DAC_LOW == Rat(125, 100)
REAL_RANGE_DAC_HIGH == Rat(532, 100)
REAL_RANGE_DAC_LOW == Rat(133, 100)

One == Rat(1, 1)
Half == Rat(1, 2)

\* fval = (gain ? IH/RH : IL/RL) / (1 + cg) * (float)(1<<16);
\* ival = (int32_t)(fval + 0.5)
computeCoefMult(cg, gain) ==
    LET ratio == IF gain # 0
                   THEN RatDiv(IDEAL_RANGE_DAC_HIGH, REAL_RANGE_DAC_HIGH)
                   ELSE RatDiv(IDEAL_RANGE_DAC_LOW, REAL_RANGE_DAC_LOW)
        fval == RatMul(RatDiv(ratio, RatAdd(One, cg)), Rat(2 ^ 16, 1))
    IN  ToInt32(RatAdd(fval, Half))

\* fval = -ca * (float)(uint32_t)(1<<17) / ((gain ? RH : RL) * (1 + cg));
\* ival = (int32_t)(fval + 0.5)
computeCoefAdd(ca, cg, gain) ==
    LET range == IF gain # 0 THEN REAL_RANGE_DAC_HIGH ELSE REAL_RANGE_DAC_LOW
        fval == RatDiv(RatMul(RatNeg(ca), Rat(2 ^ 17, 1)),
                       RatMul(range, RatAdd(One, cg)))
    IN  ToInt32(RatAdd(fval, Half))

(***************************************************************************)
(* The calibration record and the coefficient register fields              *)
(***************************************************************************)
Channels == {0, 1}
Gains == {0, 1}
Kinds == {0, 1}     \* 0 multiplicative, 1 additive

\* a stored calibration float, n / CalScale
CalFloat(n) == Rat(n, CalScale)

CoefFields == {"SC1HGMULTCOEF", "SC1HGADDCOEF", "SC1LGMULTCOEF", "SC1LGADDCOEF",
               "SC2HGMULTCOEF", "SC2HGADDCOEF", "SC2LGMULTCOEF", "SC2LGADDCOEF"}

\* what the flash (or the fresh allocation) may hold: eight distinct values
Seeds == 0..MaxSeed
FlashRecord(s) ==
    [c \in Channels |-> [g \in Gains |-> [k \in Kinds |->
        (8 * s + 4 * c + 2 * g + k) - 3]]]

\* the values setCalibValues is called with
CalVals == {v - 1 : v \in 0..MaxCal}

\* ZMOD::readUserCalib, the base layer: ERR_FAIL when calib is not
\* initialized; otherwise the flash bytes are read into the record and the
\* identifier and the checksum decide the status.
BaseStatuses == {ERR_SUCCESS, ERR_CALIB_ID, ERR_CALIB_CRC}
ZMOD_readUserCalib_status(st) == IF calib THEN st ELSE ERR_FAIL
ZMOD_readUserCalib_record(s) == IF calib THEN FlashRecord(s) ELSE cal

\* the eight writeRegFld calls of readUserCalib, in order
CoefWrites_samegain(p) ==
    << <<"SC1HGMULTCOEF", computeCoefMult(CalFloat(p[0][1][0]), 1)>>,
       <<"SC1HGADDCOEF", computeCoefAdd(CalFloat(p[0][1][0]), CalFloat(p[0][1][1]), 1)>>,
       <<"SC1LGMULTCOEF", computeCoefMult(CalFloat(p[0][0][0]), 1)>>,
       <<"SC1LGADDCOEF", computeCoefAdd(CalFloat(p[0][0][0]), CalFloat(p[0][0][1]), 1)>>,
       <<"SC2HGMULTCOEF", computeCoefMult(CalFloat(p[1][1][0]), 1)>>,
       <<"SC2HGADDCOEF", computeCoefAdd(CalFloat(p[1][1][0]), CalFloat(p[1][1][1]), 1)>>,
       <<"SC2LGMULTCOEF", computeCoefMult(CalFloat(p[1][0][0]), 1)>>,
       <<"SC2LGADDCOEF", computeCoefAdd(CalFloat(p[1][0][0]), CalFloat(p[1][0][1]), 1)>> >>

CoefWrites(p) ==
    << <<"SC1HGMULTCOEF", computeCoefMult(CalFloat(p[0][1][0]), 1)>>,
       <<"SC1HGADDCOEF", computeCoefAdd(CalFloat(p[0][1][0]), CalFloat(p[0][1][1]), 1)>>,
       <<"SC1LGMULTCOEF", computeCoefMult(CalFloat(p[0][0][0]), 0)>>,
       <<"SC1LGADDCOEF", computeCoefAdd(CalFloat(p[0][0][0]), CalFloat(p[0][0][1]), 0)>>,
       <<"SC2HGMULTCOEF", computeCoefMult(CalFloat(p[1][1][0]), 1)>>,
       <<"SC2HGADDCOEF", computeCoefAdd(CalFloat(p[1][1][0]), CalFloat(p[1][1][1]), 1)>>,
       <<"SC2LGMULTCOEF", computeCoefMult(CalFloat(p[1][0][0]), 0)>>,
       <<"SC2LGADDCOEF", computeCoefAdd(CalFloat(p[1][0][0]), CalFloat(p[1][0][1]), 0)>> >>

\* CoefWrites, tabulated over the records ZMOD::readUserCalib can deliver
FlashCoefWrites == [p \in {FlashRecord(s) : s \in Seeds} |-> CoefWrites(p)]

\* writeRegFld applied to the register fields, one write after the other
RECURSIVE ApplyWrites(_, _)
ApplyWrites(r, ws) ==
    IF ws = <<>> THEN r
    ELSE ApplyWrites([r EXCEPT ![Head(ws)[1]] = Head(ws)[2]], Tail(ws))

\* ZMODDAC1411::readUserCalib
readUserCalib ==
    \E s \in Seeds, st \in BaseStatuses :
        LET status == ZMOD_readUserCalib_status(st)
            pCalib == ZMOD_readUserCalib_record(s)
            writes == IF status = ERR_SUCCESS THEN FlashCoefWrites[pCalib] ELSE <<>>
        IN  /\ baseStatus' = status
            /\ cal' = pCalib
            /\ wlog' = writes
            /\ regs' = ApplyWrites(regs, writes)
            /\ calRet' = ERR_SUCCESS
            /\ lastOp' = "readUserCalib"
            /\ lastStored' = IF calib THEN FlashRecord(s) ELSE lastStored
            /\ UNCHANGED calib

\* the record after setCalibValues(channel, gain, valG, valA)
StoreCalib_unguarded(channel, gain, valG, valA) ==
    [cal EXCEPT ![channel][gain] = [k \in Kinds |-> IF k = 0 THEN valG ELSE valA]]

StoreCalib_swapped(channel, gain, valG, valA) ==
    IF calib
      THEN [cal EXCEPT ![gain][channel] = [k \in Kinds |-> IF k = 0 THEN valG ELSE valA]]
      ELSE cal

StoreCalib(channel, gain, valG, valA) ==
    IF calib
      THEN [cal EXCEPT ![channel][gain] = [k \in Kinds |-> IF k = 0 THEN valG ELSE valA]]
      ELSE cal

\* ZMODDAC1411::setCalibValues
setCalibValues ==
    \E channel \in Channels, gain \in Gains, valG \in CalVals, valA \in CalVals :
        /\ cal' = StoreCalib(channel, gain, valG, valA)
        /\ wlog' = <<>>
        /\ lastOp' = "setCalibValues"
        /\ lastStored' = IF calib
                           THEN [lastStored EXCEPT ![channel][gain][0] = valG,
                                                   ![channel][gain][1] = valA]
                           ELSE lastStored
        /\ UNCHANGED <<calib, regs, calRet, baseStatus>>

(***************************************************************************)
(* Sample packing                                                          *)
(***************************************************************************)
\* data &= 0x3FFF;  return channel ? (uint32_t)data << 2 : (uint32_t)data << 18;
arrangeChannelData_nomask(channel, data) ==
    IF channel # 0 THEN WordShl(Word16(data), 2) ELSE WordShl(Word16(data), 18)

arrangeChannelData(channel, data) ==
    LET masked == WordAnd(Word16(data), Word16(16383))
    IN  IF channel # 0 THEN WordShl(masked, 2) ELSE WordShl(masked, 18)

\* (uint32_t) of an int16_t: the two's-complement bits, sign-extended
Uint32OfInt16(d) ==
    [i \in 0..31 |-> IF i < 16 THEN Bit((d + 65536) % 65536, i)
                     ELSE IF d < 0 THEN 1 ELSE 0]

\* a uint32_t passed for a uint16_t parameter: the low 16 bits
RECURSIVE LowBits(_, _)
LowBits(w, n) == IF n = 0 THEN 0 ELSE LowBits(w, n - 1) + w[n - 1] * 2 ^ (n - 1)
Uint16OfUint32(w) == LowBits(w, 16)

\* return arrangeChannelData(channel, (uint32_t)data);
arrangeSignedChannelData_magnitude(channel, data) ==
    arrangeChannelData(channel, Abs(data) % 65536)

arrangeSignedChannelData(channel, data) ==
    arrangeChannelData(channel, Uint16OfUint32(Uint32OfInt16(data)))

(***************************************************************************)
(* Volts to raw                                                            *)
(***************************************************************************)
getSignedRawFromVolt_gt(voltValue, gain) ==
    LET vMax == IF gain # 0 THEN IDEAL_RANGE_DAC_HIGH ELSE IDEAL_RANGE_DAC_LOW
    IN  IF RatLT(vMax, voltValue) THEN 2 ^ 13 - 1
        ELSE IF RatLT(voltValue, RatNeg(vMax)) THEN 2 ^ 13
        ELSE ToInt32(RatDiv(RatMul(voltValue, Rat(2 ^ 13, 1)), vMax))

getSignedRawFromVolt(voltValue, gain) ==
    LET vMax == IF gain # 0 THEN IDEAL_RANGE_DAC_HIGH ELSE IDEAL_RANGE_DAC_LOW
    IN  IF RatGE(voltValue, vMax) THEN 2 ^ 13 - 1
        ELSE IF RatLT(voltValue, RatNeg(vMax)) THEN 2 ^ 13
        ELSE ToInt32(RatDiv(RatMul(voltValue, Rat(2 ^ 13, 1)), vMax))

(***************************************************************************)
(* The pure functions, applied to inputs from bounded sets                 *)
(***************************************************************************)
DataVals == (0..MaxData) \cup
    {8191, 8192, 16383, 16384, 16385, 21845, 32767, 32768, 43690, 49151, 65535}
SignedVals == ((0 - MaxData)..MaxData) \cup
    {-32768, -16385, -16384, -8193, -8192, 8191, 8192, 16383, 16384, 32767}
VoltVals == (0 - MaxVolt * VoltScale)..(MaxVolt * VoltScale)
CoefVals == (0 - MaxCoef)..MaxCoef

VoltFloat(n) == Rat(n, VoltScale)

call_arrangeChannelData ==
    \E channel \in Channels, data \in DataVals :
        /\ fn' = "arrangeChannelData"
        /\ args' = <<channel, data>>
        /\ result' = arrangeChannelData(channel, data)

call_arrangeSignedChannelData ==
    \E channel \in Channels, data \in SignedVals :
        /\ fn' = "arrangeSignedChannelData"
        /\ args' = <<channel, data>>
        /\ result' = arrangeSignedChannelData(channel, data)

call_getSignedRawFromVolt ==
    \E v \in VoltVals, gain \in Gains :
        /\ fn' = "getSignedRawFromVolt"
        /\ args' = <<v, gain>>
        /\ result' = getSignedRawFromVolt(VoltFloat(v), gain)

call_computeCoefMult ==
    \E cg \in CoefVals, gain \in Gains :
        /\ fn' = "computeCoefMult"
        /\ args' = <<cg, gain>>
        /\ result' = computeCoefMult(CalFloat(cg), gain)

call_computeCoefAdd ==
    \E ca \in CoefVals, cg \in CoefVals, gain \in Gains :
        /\ fn' = "computeCoefAdd"
        /\ args' = <<ca, cg, gain>>
        /\ result' = computeCoefAdd(CalFloat(ca), CalFloat(cg), gain)

(***************************************************************************)
(* Specifications                                                          *)
(***************************************************************************)
DataNext ==
    \/ setData_call /\ UNCHANGED <<calibVars, pureVars>>
    \/ setData_setTransferSize /\ UNCHANGED <<calibVars, pureVars>>
    \/ setData_startDMATransfer /\ UNCHANGED <<calibVars, pureVars>>
    \/ setData_checkStatus /\ UNCHANGED <<calibVars, pureVars>>
    \/ setData_poll /\ UNCHANGED <<calibVars, pureVars>>

CalibNext ==
    \/ readUserCalib /\ UNCHANGED <<dataVars, pureVars>>
    \/ setCalibValues /\ UNCHANGED <<dataVars, pureVars>>

PureNext ==
    \/ call_arrangeChannelData /\ UNCHANGED <<dataVars, calibVars>>
    \/ call_arrangeSignedChannelData /\ UNCHANGED <<dataVars, calibVars>>
    \/ call_getSignedRawFromVolt /\ UNCHANGED <<dataVars, calibVars>>
    \/ call_computeCoefMult /\ UNCHANGED <<dataVars, calibVars>>
    \/ call_computeCoefAdd /\ UNCHANGED <<dataVars, calibVars>>

InitData ==
    /\ pc = "idle"
    /\ length = 0
    /\ transferSize = 0
    /\ Status = 0
    /\ ret = 0
    /\ sizeAtStart = 0
    /\ polls = 0
    /\ lastPoll = FALSE
    /\ calib = FALSE
    /\ cal = FlashRecord(0)
    /\ regs = [f \in CoefFields |-> 0]
    /\ wlog = <<>>
    /\ lastOp = "construct"
    /\ calRet = ERR_SUCCESS
    /\ baseStatus = ERR_SUCCESS
    /\ lastStored = cal
    /\ fn = "none"
    /\ args = <<>>
    /\ result = 0

\* after construction: initCalib has allocated the record, or could not;
\* a fresh record holds arbitrary bytes
InitCalib ==
    /\ pc = "idle"
    /\ length = 0
    /\ transferSize = 0
    /\ Status = 0
    /\ ret = 0
    /\ sizeAtStart = 0
    /\ polls = 0
    /\ lastPoll = FALSE
    /\ calib \in BOOLEAN
    /\ cal \in {FlashRecord(s) : s \in Seeds}
    /\ regs = [f \in CoefFields |-> 0]
    /\ wlog = <<>>
    /\ lastOp = "construct"
    /\ calRet = ERR_SUCCESS
    /\ baseStatus = ERR_SUCCESS
    /\ lastStored = cal
    /\ fn = "none"
    /\ args = <<>>
    /\ result = 0

InitPure == InitData

SpecData == InitData /\ [][DataNext]_vars
SpecCalib == InitCalib /\ [][CalibNext]_vars
SpecPure == InitPure /\ [][PureNext]_vars

(***************************************************************************)
(* Properties                                                              *)
(***************************************************************************)

\* C1: when startDMATransfer reports a non-zero status, setData returns
\* ERR_FAIL at once: it never reaches the wait loop and it has polled
\* isDMATransferComplete zero times when it returns.
C1_FailFast ==
    (Status # 0 /\ pc \in {"wait", "returned"})
        => (pc = "returned" /\ ret = ERR_FAIL /\ polls = 0)

C1_Witness == pc = "returned" /\ Status = 255 /\ ret = ERR_FAIL /\ length = MaxLen

\* C2: the transfer size is length * 4 when the DMA transfer is started, and
\* a call whose start succeeded has returned only with 0 and only after a
\* poll that reported completion.
C2_SizeThenWait ==
    /\ pc \in {"checkStatus", "wait", "returned"} => sizeAtStart = length * 4
    /\ (pc = "returned" /\ Status = 0) => (ret = 0 /\ lastPoll /\ polls >= 1)
    /\ (pc = "returned" /\ ret = 0) => lastPoll
    /\ (pc = "wait" /\ polls >= 1) => ~lastPoll

C2_Witness ==
    /\ pc = "returned"
    /\ ret = 0
    /\ lastPoll
    /\ polls = MaxPolls
    /\ length = MaxLen
    /\ sizeAtStart = 4 * MaxLen

\* C3: readUserCalib returns the status the base-layer load reported.
C3_ReturnsBaseStatus == lastOp = "readUserCalib" => calRet = baseStatus

\* the register field of a coefficient kind, channel and gain
CoefField(kind, channel, gain) ==
    IF kind = 0
      THEN IF channel = 0
             THEN (IF gain = 1 THEN "SC1HGMULTCOEF" ELSE "SC1LGMULTCOEF")
             ELSE (IF gain = 1 THEN "SC2HGMULTCOEF" ELSE "SC2LGMULTCOEF")
      ELSE IF channel = 0
             THEN (IF gain = 1 THEN "SC1HGADDCOEF" ELSE "SC1LGADDCOEF")
             ELSE (IF gain = 1 THEN "SC2HGADDCOEF" ELSE "SC2LGADDCOEF")

RECURSIVE Field(_, _, _)
Field(w, lo, n) ==
    IF n = 0 THEN 0 ELSE Field(w, lo, n - 1) + w[lo + n - 1] * 2 ^ (n - 1)

ChannelShift(channel) == IF channel = 0 THEN 18 ELSE 2

\* the caller's OR of the two channel words
WordOr(a, b) == [i \in 0..31 |-> IF a[i] + b[i] > 0 THEN 1 ELSE 0]

\* C5: arrangeChannelData(channel, data) is (data mod 2^14) shifted left by
\* 18 (channel 0) or 2 (channel 1): the 14 bits from the shift upwards hold
\* data mod 2^14 and every other bit is 0; a word of the other channel
\* shares no set bit with it, and both samples can be read back from the OR.
C5_Packing ==
    fn = "arrangeChannelData" =>
        LET channel == args[1]
            d14 == args[2] % (2 ^ 14)
            shift == ChannelShift(channel)
        IN  /\ Field(result, shift, 14) = d14
            /\ \A i \in 0..31 : (i < shift \/ i > shift + 13) => result[i] = 0
            /\ \A d2 \in DataVals :
                 LET other == arrangeChannelData(1 - channel, d2)
                     word == WordOr(result, other)
                 IN  /\ WordAnd(result, other) = ZeroWord
                     /\ Field(word, shift, 14) = d14
                     /\ Field(word, ChannelShift(1 - channel), 14) = d2 % (2 ^ 14)

C5_Witness ==
    /\ fn = "arrangeChannelData"
    /\ args = <<0, 65535>>
    /\ Field(result, 18, 14) = 16383
    /\ result[17] = 0

\* C6: arrangeSignedChannelData(channel, d) is arrangeChannelData(channel, u)
\* with u the low 14 bits of d's two's-complement pattern, d mod 2^14.
C6_SignedBits ==
    fn = "arrangeSignedChannelData" =>
        result = arrangeChannelData(args[1], args[2] % (2 ^ 14))

C6_Witness ==
    /\ fn = "arrangeSignedChannelData"
    /\ args = <<1, -1>>
    /\ result = arrangeChannelData(1, 16383)
    /\ result # ZeroWord

\* C7: setCalibValues with a null calib changes neither the record, nor a
\* register field, nor calib.
C7_NullNoOp ==
    [][(lastOp' = "setCalibValues" /\ ~calib)
          => (cal' = cal /\ regs' = regs /\ calib' = calib /\ wlog' = <<>>)]_vars

C7_Witness == lastOp = "setCalibValues" /\ ~calib

\* C8: with the record loaded, every cal[channel][gain] pair holds the
\* values stored into it last: those of the most recent setCalibValues that
\* addressed it, or else those loaded.
C8_HoldsLastSet == calib => cal = lastStored

C8_Witness ==
    /\ lastOp = "setCalibValues"
    /\ calib
    /\ cal[0][1][0] = 0 /\ cal[0][1][1] = -1
    /\ cal[1][0][0] = -1 /\ cal[1][0][1] = 0
    /\ cal[1][1] = FlashRecord(1)[1][1]

\* vMax of the claim about getSignedRawFromVolt, as <<numerator, denominator>>
C9_vMax(gain) == IF gain = 1 THEN <<5, 1>> ELSE <<5, 4>>

\* C9 as stated: 2^13 - 1 at or above vMax, 2^13 below -vMax, otherwise
\* floor(voltValue * 2^13 / vMax).
C9_Floor ==
    fn = "getSignedRawFromVolt" =>
        LET vm == C9_vMax(args[2])
            v == args[1] * vm[2]
            lim == vm[1] * VoltScale
        IN  result = IF v >= lim THEN 8191
                     ELSE IF v < -lim THEN 8192
                     ELSE (v * 8192) \div lim

\* C9 amended: in range the result is voltValue * 2^13 / vMax with the
\* fraction discarded, toward zero.
C9_Truncates ==
    fn = "getSignedRawFromVolt" =>
        LET vm == C9_vMax(args[2])
            v == args[1] * vm[2]
            lim == vm[1] * VoltScale
            num == v * 8192
        IN  IF v >= lim THEN result = 8191
            ELSE IF v < -lim THEN result = 8192
            ELSE IF num >= 0
                   THEN result * lim <= num /\ num < (result + 1) * lim
                   ELSE (result - 1) * lim < num /\ num <= result * lim

C9_Witness ==
    /\ fn = "getSignedRawFromVolt"
    /\ args = <<-1, 1>>
    /\ result * VoltScale * 5 > -8192
    /\ result < 0

\* C10: computeCoefAdd returns -ca * 2^17 / (realRange * (1 + cg)) rounded
\* to the nearest integer, halves up, realRange 5.32 (gain 1) or 1.33.
C10_RoundsToNearest ==
    fn = "computeCoefAdd" =>
        LET num == (0 - args[1]) * (2 ^ 17) * 100
            den == (IF args[3] = 1 THEN 532 ELSE 133) * (CalScale + args[2])
        IN  result = (2 * num + den) \div (2 * den)

====
